---------------------------- MODULE Spec2Model ----------------------------
(***************************************************************************)
(* Cache-aside layer and hybrid retrieval of TravelGraphRAG:               *)
(*   cache_manager.py        CacheManager, cached                          *)
(*   services/embedding_service.py   embed_single, embed_batch             *)
(*   services/vector_db_service.py   search                                *)
(*   services/graph_db_service.py    fetch_neighborhood, fetch_multi_...    *)
(*   hybrid_chat.py          retrieve_context                              *)
(* Redis, OpenAI, Pinecone and Neo4j are the environment: each call to     *)
(* them returns or raises, chosen by the action that makes the call.       *)
(***************************************************************************)
EXTENDS Naturals, Sequences, FiniteSets, TLC

VARIABLES
    store,      \* the Redis database: cache key -> [val, ttl]
    origin,     \* history: cache key -> the computation its entry was written from
    cm_client,  \* cache_manager.client is not None (the global instance)
    last,       \* history: the last completed top-level call
    rc,         \* the retrieve_context activation in progress
    proc,       \* the running Python process: [addr, seed]
    redis_up,   \* the Redis server can be reached
    thr         \* the activations in progress in concurrent threads:
                \* [clear, calls], a clear_pattern and the wrapped calls

vars == <<store, origin, cm_client, last, rc, proc, redis_up, thr>>

-----------------------------------------------------------------------------
(* Bounds                                                                  *)

MaxBatch == 3       \* longest texts list given to embed_batch
MaxTopK == 3        \* largest top_k given to retrieve_context
MaxCallers == 2     \* concurrent callers of one wrapped function

-----------------------------------------------------------------------------
(* Python values.  A value is [ty, items]: its type name and its elements;  *)
(* an element is a tuple of strings.                                       *)

PyNone == [ty |-> "NoneType", items |-> <<>>]
PyList(s) == [ty |-> "list", items |-> s]
PyTuple(s) == [ty |-> "tuple", items |-> s]
PySet(s) == [ty |-> "set", items |-> s]
PyInt(n) == [ty |-> "int", items |-> <<n>>]
PyStr(s) == [ty |-> "str", items |-> s]

\* bool(v)
Truthy(v) ==
    CASE v.ty = "NoneType" -> FALSE
      [] v.ty = "int" -> v.items # <<<<"0">>>>
      [] OTHER -> v.items # <<>>

\* results a wrapped function may return
FuncResults ==
    { PyNone, PyList(<<>>), PyInt(<<"0">>), PyStr(<<>>),
      PyList(<<<<"1">>>>), PyTuple(<<<<"1">>>>), PySet(<<<<"1">>>>) }

-----------------------------------------------------------------------------
(* json.dumps / json.loads.  A JSON text is [text, items]: the kind of     *)
(* JSON value it spells and its elements.                                  *)

Nil == [text |-> "nil", items |-> <<>>]     \* the reply None of client.get

Serializable(v) == v.ty \in {"NoneType", "list", "tuple", "int", "str"}

json_dumps(v) ==
    CASE v.ty = "NoneType" -> [text |-> "null", items |-> <<>>]
      [] v.ty \in {"list", "tuple"} -> [text |-> "array", items |-> v.items]
      [] v.ty = "int" -> [text |-> "number", items |-> v.items]
      [] v.ty = "str" -> [text |-> "string", items |-> v.items]

\* a decoder under which a stored null reads back as a marker, not as None
json_loads_marker(s) ==
    CASE s.text = "null" -> [ty |-> "marker", items |-> <<>>]
      [] s.text = "array" -> PyList(s.items)
      [] s.text = "number" -> [ty |-> "int", items |-> s.items]
      [] s.text = "string" -> PyStr(s.items)

json_loads(s) ==
    CASE s.text = "null" -> PyNone
      [] s.text = "array" -> PyList(s.items)
      [] s.text = "number" -> [ty |-> "int", items |-> s.items]
      [] s.text = "string" -> PyStr(s.items)

\* a stored text that is not JSON (written by something else than set)
Garbage == [text |-> "garbage", items |-> <<>>]

\* json.loads(s) returns; otherwise it raises JSONDecodeError
Decodable(s) == s.text \in {"null", "array", "number", "string"}

\* bool(value) of a reply of client.get: None and "" are falsy
ReplyTruthy(value) == value # Nil /\ value.text # ""

-----------------------------------------------------------------------------
(* A Python process.  addr: where it allocates the service objects (the    *)
(* default repr of an object spells its address); seed: the seed of str    *)
(* hashing (PYTHONHASHSEED, random unless set).  Two processes may or may  *)
(* not agree on either.                                                    *)

Procs ==
    { [addr |-> "0x7f01", seed |-> "s1"], [addr |-> "0x7f01", seed |-> "s2"],
      [addr |-> "0x7f02", seed |-> "s2"] }

Boot == [addr |-> "0x7f01", seed |-> "s1"]

-----------------------------------------------------------------------------
(* Cache keys are strings.                                                 *)

RECURSIVE Join(_, _)
Join(s, sep) ==
    IF s = <<>> THEN ""
    ELSE IF Len(s) = 1 THEN s[1]
    ELSE s[1] \o sep \o Join(Tail(s), sep)

\* str(args) of a tuple of arguments, each given by its repr
StrArgs(args) ==
    IF Len(args) = 1 THEN "(" \o args[1] \o ",)"
    ELSE "(" \o Join(args, ", ") \o ")"

\* the keyword names in sorted order
KwNames == <<"filter_dict", "include_metadata", "query_text", "top_k">>

\* sorted(kwargs.items()): kwargs is a sequence of <<name, repr>> in
\* insertion order, the names distinct
\* mutant: the items are left in insertion order
SortedItems_unsorted(kwargs, n) == kwargs

RECURSIVE SortedItems(_, _)
SortedItems(kwargs, n) ==
    IF n > Len(KwNames) THEN <<>>
    ELSE SelectSeq(kwargs, LAMBDA kv : kv[1] = KwNames[n])
            \o SortedItems(kwargs, n + 1)

StrItem(kv) == "('" \o kv[1] \o "', " \o kv[2] \o ")"

StrItems(kw) ==
    "[" \o Join([i \in 1..Len(kw) |-> StrItem(kw[i])], ", ") \o "]"

\* hashlib.md5(data.encode()).hexdigest(): collisions are outside the model
Md5Hex(data) == "md5<" \o data \o ">"

generate_key(prefix, args, kwargs) ==
    prefix \o ":" \o
      Md5Hex(prefix \o ":" \o StrArgs(args) \o ":"
                \o StrItems(SortedItems(kwargs, 1)))

-----------------------------------------------------------------------------
(* CacheManager.  An instance is its client: TRUE when the handshake of    *)
(* __init__ succeeded, FALSE when client is None.  Every backend call may  *)
(* raise; `err` says whether this one does.                                *)

default_ttl == "default_ttl"
NoTtl == "None"

\* mutant: the instance always reports itself available
is_available_always(client) == TRUE

is_available(client) == client

\* mutant: GET finds nothing
RedisGet_nil(db, key) == Nil

RedisGet(db, key) == IF key \in DOMAIN db THEN db[key].val ELSE Nil

RedisSetex(db, key, ttl, serialized) ==
    [k \in DOMAIN db \cup {key} |->
        IF k = key THEN [val |-> serialized, ttl |-> ttl] ELSE db[k]]

\* mutant: DEL removes nothing
RedisDel_none(db, keys) == db

RedisDel(db, keys) == [k \in DOMAIN db \ keys |-> db[k]]

\* mutant: the hit test applied to the deserialised value
cache_get_truthy(client, err, db, key) ==
    IF ~is_available(client) THEN PyNone
    ELSE IF err THEN PyNone
    ELSE LET value == RedisGet(db, key)
         IN  IF ~ReplyTruthy(value) THEN PyNone
             ELSE IF ~Decodable(value) THEN PyNone
             ELSE IF Truthy(json_loads(value)) THEN json_loads(value)
             ELSE PyNone

\* an exception leaving a method, where a value is expected
PyRaised == [ty |-> "raised", items |-> <<>>]

\* mutant: json.loads outside the try block
cache_get_unguarded(client, err, db, key) ==
    IF ~is_available(client) THEN PyNone
    ELSE IF err THEN PyNone
    ELSE LET value == RedisGet(db, key)
         IN  IF ~ReplyTruthy(value) THEN PyNone
             ELSE IF ~Decodable(value) THEN PyRaised
             ELSE json_loads(value)

\* get: None when unavailable, when client.get raises (err), when the reply
\* is falsy and when json.loads raises; the loaded value otherwise
cache_get(client, err, db, key) ==
    IF ~is_available(client) THEN PyNone
    ELSE IF err THEN PyNone
    ELSE LET value == RedisGet(db, key)
         IN  IF ~ReplyTruthy(value) THEN PyNone
             ELSE IF ~Decodable(value) THEN PyNone
             ELSE json_loads(value)

\* mutant: the availability test inverted, nothing is ever written
cache_set_dropped(client, err, db, key, value, ttl) ==
    IF is_available(client) THEN [ok |-> FALSE, db |-> db]
    ELSE [ok |-> FALSE, db |-> db]

\* ttl or self.default_ttl: None and 0 are both falsy
ttl_or_default(ttl) == IF ttl \in {NoTtl, "0"} THEN default_ttl ELSE ttl

\* [ok, db]: the return value and the database afterwards
cache_set(client, err, db, key, value, ttl) ==
    IF ~is_available(client) THEN [ok |-> FALSE, db |-> db]
    ELSE LET t == ttl_or_default(ttl)
         IN  IF ~Serializable(value) THEN [ok |-> FALSE, db |-> db]
             ELSE IF err THEN [ok |-> FALSE, db |-> db]
             ELSE [ok |-> TRUE, db |-> RedisSetex(db, key, t, json_dumps(value))]

\* delete: [ret, db, calls]; client.delete returns the number of keys removed
cache_delete(client, err, db, key) ==
    IF ~is_available(client) THEN [ret |-> FALSE, db |-> db, calls |-> <<>>]
    ELSE IF err THEN [ret |-> FALSE, db |-> db, calls |-> <<"DEL">>]
    ELSE [ret |-> Cardinality({key} \cap DOMAIN db) > 0,
          db |-> RedisDel(db, {key}), calls |-> <<"DEL">>]

\* KEYS pattern: the glob of Redis, of which * is modelled
RECURSIVE GlobMatch(_, _)
GlobMatch(p, str) ==
    IF p = "" THEN str = ""
    ELSE IF SubSeq(p, 1, 1) = "*"
      THEN \E i \in 0..Len(str) :
              GlobMatch(SubSeq(p, 2, Len(p)), SubSeq(str, i + 1, Len(str)))
    ELSE /\ str # ""
         /\ SubSeq(str, 1, 1) = SubSeq(p, 1, 1)
         /\ GlobMatch(SubSeq(p, 2, Len(p)), SubSeq(str, 2, Len(str)))

RedisKeys(db, pattern) == {k \in DOMAIN db : GlobMatch(pattern, k)}

\* mutant: the keys are listed but only one of them is deleted
clear_pattern_one(client, err, db, pattern, gone) ==
    IF ~is_available(client) THEN [ret |-> 0, db |-> db, calls |-> <<>>]
    ELSE LET keys == RedisKeys(db, pattern)
         IN  IF keys = {} THEN [ret |-> 0, db |-> db, calls |-> <<"KEYS">>]
             ELSE [ret |-> 1, db |-> RedisDel(db, {CHOOSE k \in keys : TRUE}),
                   calls |-> <<"KEYS", "DEL">>]

\* clear_pattern: [ret, db, calls].  err: "keys" or "delete" when that
\* backend call raises, "none" otherwise; gone: the listed keys that expire
\* between the two calls (DEL does not count them)
clear_pattern(client, err, db, pattern, gone) ==
    IF ~is_available(client) THEN [ret |-> 0, db |-> db, calls |-> <<>>]
    ELSE IF err = "keys" THEN [ret |-> 0, db |-> db, calls |-> <<"KEYS">>]
    ELSE LET keys == RedisKeys(db, pattern)
             left == RedisDel(db, keys \cap gone)
         IN  IF keys = {} THEN [ret |-> 0, db |-> db, calls |-> <<"KEYS">>]
             ELSE IF err = "delete"
               THEN [ret |-> 0, db |-> left, calls |-> <<"KEYS", "DEL">>]
             ELSE [ret |-> Cardinality(keys \ gone),
                   db |-> RedisDel(left, keys), calls |-> <<"KEYS", "DEL">>]

\* flush_all: [ret, db, calls]
flush_all(client, err, db) ==
    IF ~is_available(client) THEN [ret |-> FALSE, db |-> db, calls |-> <<>>]
    ELSE IF err THEN [ret |-> FALSE, db |-> db, calls |-> <<"FLUSHDB">>]
    ELSE [ret |-> TRUE, db |-> [k \in {} |-> Nil], calls |-> <<"FLUSHDB">>]


-----------------------------------------------------------------------------
(* What one call of a cache-wrapped function does.                         *)
(*   fault: what the cache backend does during the call:                   *)
(*     hs       the handshake of the CacheManager the call constructs      *)
(*     get_err  client.get raises;  set_err  client.setex raises           *)
(*   comp: what the wrapped func does if it is invoked:               *)
(*     raised, val  it raises, or returns val                              *)
(*     db       the database after it                                      *)
(*     log      the calls it made, in order                                *)
(*     writes   the cache writes it made, in order                         *)
(*     clean    (history) every upstream call it made returned             *)

\* what redis.Redis(...).ping() does: it returns, or raises
\*   ConnectionError  connection refused, unreachable host, failed AUTH
\*   TimeoutError     socket_connect_timeout ran out
\*   RedisError       any other error reply
\* TimeoutError and ConnectionError are both subclasses of RedisError,
\* neither of the other.
Handshakes == {"ok", "ConnectionError", "TimeoutError", "RedisError"}

\* CacheManager.__init__: [raised, client]; only ConnectionError is caught
CacheManager_init(hs) ==
    CASE hs = "ok" -> [raised |-> FALSE, client |-> TRUE]
      [] hs = "ConnectionError" -> [raised |-> FALSE, client |-> FALSE]
      [] OTHER -> [raised |-> TRUE, client |-> FALSE]

CacheFaults ==
    { [hs |-> "ok", get_err |-> g, set_err |-> s] : g, s \in BOOLEAN }
      \cup { [hs |-> h, get_err |-> FALSE, set_err |-> FALSE] :
                h \in Handshakes \ {"ok"} }

NoFault == [hs |-> "ok", get_err |-> FALSE, set_err |-> FALSE]

Ev(ev, key, val, ok) == [ev |-> ev, key |-> key, val |-> val, ok |-> ok]

Raise(key, db, log, writes) ==
    [raised |-> TRUE, ret |-> PyNone, hit |-> FALSE, key |-> key,
     db |-> db, log |-> log, writes |-> writes]

Return(v, hit, key, db, log, writes) ==
    [raised |-> FALSE, ret |-> v, hit |-> hit, key |-> key,
     db |-> db, log |-> log, writes |-> writes]

\* mutant: the wrapper uses the module's global instance, no handshake
wrapper_global(fname, prefix, ttl, args, kwargs, fault, db, comp) ==
    LET cache == cm_client
        cache_key == generate_key(prefix, args, kwargs)
        cached_result == cache_get(cache, fault.get_err, db, cache_key)
        called == <<Ev("call", fname, PyNone, ~comp.raised)>> \o comp.log
    IN  IF cached_result # PyNone
          THEN Return(cached_result, TRUE, cache_key, db, <<>>, <<>>)
        ELSE IF comp.raised
          THEN Raise(cache_key, comp.db, called, comp.writes)
        ELSE
          LET w == cache_set(cache, fault.set_err, comp.db, cache_key,
                             comp.val, ttl)
              wr == [key |-> cache_key, val |-> comp.val, clean |-> comp.clean]
          IN  Return(comp.val, FALSE, cache_key, w.db, called,
                     comp.writes \o (IF w.ok THEN <<wr>> ELSE <<>>))

wrapper(fname, prefix, ttl, args, kwargs, fault, db, comp) ==
    IF CacheManager_init(fault.hs).raised
      THEN Raise("", db, <<Ev("CacheManager", fname, PyNone, FALSE)>>, <<>>)
    ELSE
      LET cache == CacheManager_init(fault.hs).client
          cache_key == generate_key(prefix, args, kwargs)
          cached_result == cache_get(cache, fault.get_err, db, cache_key)
          made == <<Ev("CacheManager", fname, PyNone, TRUE)>>
          called == made \o <<Ev("call", fname, PyNone, ~comp.raised)>>
                         \o comp.log
      IN  IF cached_result # PyNone
            THEN Return(cached_result, TRUE, cache_key, db, made, <<>>)
          ELSE IF comp.raised
            THEN Raise(cache_key, comp.db, called, comp.writes)
          ELSE
            LET w == cache_set(cache, fault.set_err, comp.db, cache_key,
                               comp.val, ttl)
                wr == [key |-> cache_key, val |-> comp.val, clean |-> comp.clean]
            IN  Return(comp.val, FALSE, cache_key, w.db, called,
                       comp.writes \o (IF w.ok THEN <<wr>> ELSE <<>>))

\* origin after the writes of a call, for the keys still in the database
RECURSIVE Written(_, _)
Written(o, writes) ==
    IF writes = <<>> THEN o
    ELSE LET w == Head(writes)
         IN  Written([k \in DOMAIN o \cup {w.key} |->
                        IF k = w.key THEN [val |-> w.val, clean |-> w.clean]
                        ELSE o[k]],
                     Tail(writes))

Count(log, ev, key) ==
    Cardinality({i \in 1..Len(log) : log[i].ev = ev /\ log[i].key = key})

-----------------------------------------------------------------------------
(* A wrapped function as in the docstring of cached:                       *)
(*   @cached(prefix="embeddings", ttl=3600)  def get_embedding(text)       *)
(* Its body is free: it raises or returns any of FuncResults.              *)

FuncArgs == {"'x'", "'y'"}

FuncOutcomes ==
    { [raised |-> FALSE, val |-> v] : v \in FuncResults }
      \cup {[raised |-> TRUE, val |-> PyNone]}

NoOrigin == [val |-> PyNone, clean |-> FALSE]

\* rc.log: the calls of the search step; rc.segments: what each fetch did
Idle ==
    [pc |-> "idle", query |-> "", top_k |-> 0, matches |-> <<>>,
     i |-> 0, all_facts |-> <<>>, segments |-> <<>>, log |-> <<>>]

NoCall ==
    [op |-> "none", args |-> <<>>, key |-> "", fault |-> NoFault,
     had |-> FALSE, prev |-> NoOrigin,
     comp |-> [raised |-> FALSE, val |-> PyNone], seen |-> <<>>,
     raised |-> FALSE, ret |-> PyNone, hit |-> FALSE,
     log |-> <<>>, writes |-> <<>>]

Callers == 1..MaxCallers

\* a caller that has not entered the wrapper.  client: its CacheManager is
\* available; missed: its cache read returned None; src: (history) what
\* the entry it read was written from; computes: (history) its calls of func
CallerStart ==
    [pc |-> "start", client |-> FALSE, missed |-> FALSE, hit |-> FALSE,
     src |-> NoOrigin, val |-> PyNone, ret |-> PyNone, computes |-> 0]

\* no clear_pattern in progress.  listed, keys: KEYS returned, and what;
\* failed: a backend call raised; mid, late: (history) the keys written by
\* others after the KEYS and before the DEL, and after the DEL
ClearIdle ==
    [pc |-> "idle", pattern |-> "", listed |-> FALSE, keys |-> {},
     mid |-> {}, late |-> {}, failed |-> FALSE, ret |-> 0]

NoThreads == [clear |-> ClearIdle, calls |-> [c \in Callers |-> CallerStart]]

Init ==
    /\ store = [k \in {} |-> Nil]
    /\ origin = [k \in {} |-> NoOrigin]
    /\ cm_client \in BOOLEAN
    /\ last = NoCall
    /\ rc = Idle
    /\ proc = Boot
    /\ redis_up = cm_client
    /\ thr = NoThreads

CallFunc(a, fault, out) ==
    LET comp == [raised |-> out.raised, val |-> out.val, db |-> store,
                 log |-> <<>>, writes |-> <<>>, clean |-> ~out.raised]
    IN  /\ rc.pc = "idle" /\ last.op = "none"
        /\ \E res \in {wrapper("get_embedding", "embeddings", "3600", <<a>>,
                               <<>>, fault, store, comp)} :
              /\ store' = res.db
              /\ origin' = Written(origin, res.writes)
              /\ last' = [op |-> "get_embedding", args |-> <<a>>,
                          key |-> res.key, fault |-> fault,
                          had |-> res.key \in DOMAIN store,
                          prev |-> IF res.key \in DOMAIN store
                                   THEN origin[res.key] ELSE NoOrigin,
                          comp |-> out, seen |-> <<>>,
                          raised |-> res.raised, ret |-> res.ret,
                          hit |-> res.hit,
                          log |-> res.log, writes |-> res.writes]
        /\ UNCHANGED <<cm_client, rc, proc, redis_up, thr>>

\* the backend drops an entry whose TTL has run out
Expire(k) ==
    /\ k \in DOMAIN store
    /\ store' = RedisDel(store, {k})
    /\ origin' = [j \in DOMAIN origin \ {k} |-> origin[j]]
    /\ last' = NoCall
    /\ UNCHANGED <<cm_client, rc, proc, redis_up, thr>>

\* the caller has taken the result: the history of the call is dropped
\* before the next call begins
Forget ==
    /\ last.op # "none"
    /\ last' = NoCall
    /\ UNCHANGED <<store, origin, cm_client, rc, proc, redis_up, thr>>

NextFunc ==
    \/ \E a \in FuncArgs, fault \in CacheFaults, out \in FuncOutcomes :
          CallFunc(a, fault, out)
    \/ \E k \in DOMAIN store : Expire(k)
    \/ Forget

\* calls of the wrapped function; the global instance plays no part
InitFunc == Init /\ cm_client = TRUE

Spec == InitFunc /\ [][NextFunc]_vars

-----------------------------------------------------------------------------
(* Claims about cached (checked under Spec)                                *)

Computes(fname) == Count(last.log, "call", fname)

\* the value survives json.dumps and json.loads unchanged
RoundTrips(v) == Serializable(v) /\ json_loads(json_dumps(v)) = v

\* C1 as stated: with the store available, a call that finds no entry for
\* its arguments computes once and writes once; a call that finds the entry
\* an earlier call wrote computes nothing and returns that call's result.
C1_AsStated ==
    (last.op = "get_embedding" /\ last.fault = NoFault) =>
        /\ ~last.had =>
              /\ Computes("get_embedding") = 1
              /\ Len(last.writes) = 1
        /\ last.had =>
              /\ Computes("get_embedding") = 0
              /\ ~last.raised /\ last.ret = last.prev.val

\* C1 amended: the same, for a compute that returns (does not raise) a value
\* other than None that json.dumps/json.loads give back unchanged.
C1_CachedOnceThenHit ==
    (last.op = "get_embedding" /\ last.fault = NoFault) =>
        /\ (~last.had /\ ~last.comp.raised /\ last.comp.val # PyNone
              /\ RoundTrips(last.comp.val)) =>
              /\ Computes("get_embedding") = 1
              /\ Len(last.writes) = 1
              /\ ~last.raised /\ last.ret = last.comp.val
              /\ last.key \in DOMAIN store
              /\ store[last.key].val = json_dumps(last.comp.val)
        /\ (last.had /\ last.prev.val # PyNone /\ RoundTrips(last.prev.val)) =>
              /\ Computes("get_embedding") = 0
              /\ Len(last.writes) = 0
              /\ ~last.raised /\ last.ret = last.prev.val

\* a second call has returned the list the first call computed
C1_Witness ==
    /\ last.op = "get_embedding" /\ last.fault = NoFault
    /\ last.had /\ last.hit
    /\ last.prev.val = PyList(<<<<"1">>>>)
    /\ last.ret = PyList(<<<<"1">>>>)

FalsyResults == {PyList(<<>>), PyInt(<<"0">>), PyStr(<<>>)}

\* C3: a cached empty list, zero or empty string is returned as a hit by a
\* later call with the same arguments (the cache reachable), without a
\* compute.
C3_FalsyValueIsHit ==
    (/\ last.op = "get_embedding" /\ last.fault = NoFault
     /\ last.had /\ last.prev.val \in FalsyResults) =>
        /\ last.hit /\ ~last.raised
        /\ last.ret = last.prev.val
        /\ Computes("get_embedding") = 0

C3_Witness ==
    /\ last.op = "get_embedding" /\ last.fault = NoFault
    /\ last.had /\ last.hit
    /\ last.ret = PyInt(<<"0">>) /\ ~Truthy(last.ret)

-----------------------------------------------------------------------------
(* EmbeddingService.embed_batch, on the global cache_manager.              *)

Texts == {"a", "b"}

EMBED_MODEL == "EMBED_MODEL"

\* hash(text) of a str: a function of the text and the seed of the process
PyHash(text) == "hash<" \o proc.seed \o "," \o text \o ">"

\* _generate_cache_key for a str (embed_batch passes each text, never a list)
generate_cache_key(model, text) ==
    "embedding:" \o model \o ":" \o PyHash(text)

\* the vector the provider returns for a text; ver tells two answers apart
Embedding(text, ver) == PyList(<<<<"emb", text, ver>>>>)

\* client.embeddings.create(model, input): raises, or returns one data item
\* per input text, in input order
UpOutcomes ==
    {[ok |-> FALSE, ver |-> "1"]} \cup {[ok |-> TRUE, ver |-> v] : v \in {"1", "2"}}

embeddings_create(texts, up) == [j \in 1..Len(texts) |-> Embedding(texts[j], up.ver)]

\* mutant: one upstream call per miss
create_calls_each(model, to_compute, up) ==
    [j \in 1..Len(to_compute) |->
        Ev("embeddings.create", model, PyList(<<<<to_compute[j]>>>>), up.ok)]

\* the upstream calls of one invocation: one call, with input=to_compute
create_calls(model, to_compute, up) ==
    <<Ev("embeddings.create", model,
         PyList([j \in 1..Len(to_compute) |-> <<to_compute[j]>>]), up.ok)>>

\* mutant: the last pair is dropped
Zip_short(a, b) ==
    LET n == IF Len(a) <= Len(b) THEN Len(a) ELSE Len(b)
    IN  [j \in 1..(IF n > 1 THEN n - 1 ELSE n) |-> <<a[j], b[j]>>]

\* mutant: the j-th result is paired with position j of the input
Zip_positions(a, b) ==
    LET n == IF Len(a) <= Len(b) THEN Len(a) ELSE Len(b)
    IN  [j \in 1..n |-> <<j, b[j]>>]

\* zip(a, b)
Zip(a, b) ==
    LET n == IF Len(a) <= Len(b) THEN Len(a) ELSE Len(b)
    IN  [j \in 1..n |-> <<a[j], b[j]>>]

\* mutant: the j-th result is stored at position j
Place_by_rank(embeddings, pairs) ==
    [i \in 1..Len(embeddings) |->
        IF i <= Len(pairs) THEN pairs[i][2] ELSE embeddings[i]]

\* embeddings[idx] = embedding, for every (idx, embedding) of pairs
Place(embeddings, pairs) ==
    [i \in 1..Len(embeddings) |->
        IF \E j \in 1..Len(pairs) : pairs[j][1] = i
          THEN pairs[CHOOSE j \in 1..Len(pairs) :
                        /\ pairs[j][1] = i
                        /\ \A m \in (j + 1)..Len(pairs) : pairs[m][1] # i][2]
          ELSE embeddings[i]]

\* cache_manager.set for every pair, in order: [db, writes]
RECURSIVE CacheAll(_, _, _, _, _)
CacheAll(client, err, db, cache_keys, pairs) ==
    IF pairs = <<>> THEN [db |-> db, writes |-> <<>>]
    ELSE LET idx == Head(pairs)[1]
             embedding == Head(pairs)[2]
             w == cache_set(client, err, db, cache_keys[idx], embedding,
                            "CACHE_TTL_EMBEDDINGS")
             rest == CacheAll(client, err, w.db, cache_keys, Tail(pairs))
             wr == [key |-> cache_keys[idx], val |-> embedding, clean |-> TRUE]
         IN  [db |-> rest.db,
              writes |-> (IF w.ok THEN <<wr>> ELSE <<>>) \o rest.writes]

\* mutant: the except branch returns what the cache gave
batch_failed_partial(embeddings, db, log) ==
    Return(embeddings, FALSE, "", db, log, <<>>)

\* except Exception: log and raise
batch_failed(embeddings, db, log) == Raise("", db, log, <<>>)

embed_batch(model, texts, client, fault, up, db) ==
    IF texts = <<>> THEN Return(<<>>, FALSE, "", db, <<>>, <<>>)
    ELSE
      LET n == Len(texts)
          cache_keys == [i \in 1..n |-> generate_cache_key(model, texts[i])]
          cached == [i \in 1..n |->
                        cache_get(client, fault.get_err, db, cache_keys[i])]
          embeddings == [i \in 1..n |->
                            IF Truthy(cached[i]) THEN cached[i] ELSE PyNone]
          to_compute_indices ==
              SelectSeq([i \in 1..n |-> i], LAMBDA i : ~Truthy(cached[i]))
          to_compute ==
              [j \in 1..Len(to_compute_indices) |-> texts[to_compute_indices[j]]]
          calls == create_calls(model, to_compute, up)
      IN  IF to_compute = <<>>
            THEN Return(embeddings, FALSE, "", db, <<>>, <<>>)
          ELSE IF ~up.ok
            THEN batch_failed(embeddings, db, calls)
          ELSE
            LET pairs == Zip(to_compute_indices, embeddings_create(to_compute, up))
                c == CacheAll(client, fault.set_err, db, cache_keys, pairs)
            IN  Return(Place(embeddings, pairs), FALSE, "", c.db, calls, c.writes)

BatchInputs == UNION {[1..n -> Texts] : n \in 0..MaxBatch}

BatchFaults == {f \in CacheFaults : f.hs = "ok"}

EmbedBatch(texts, fault, up) ==
    /\ rc.pc = "idle" /\ last.op = "none"
    /\ \E res \in {embed_batch(EMBED_MODEL, texts, cm_client, fault, up, store)} :
          /\ store' = res.db
          /\ origin' = Written(origin, res.writes)
          /\ last' = [op |-> "embed_batch", args |-> texts, fault |-> fault,
                      before |-> store, up |-> up,
                      raised |-> res.raised, ret |-> res.ret,
                      log |-> res.log, writes |-> res.writes]
    /\ UNCHANGED <<cm_client, rc, proc, redis_up, thr>>

NextBatch ==
    \/ \E texts \in BatchInputs, fault \in BatchFaults, up \in UpOutcomes :
          EmbedBatch(texts, fault, up)
    \/ \E k \in DOMAIN store : Expire(k)
    \/ Forget

SpecBatch == Init /\ [][NextBatch]_vars

-----------------------------------------------------------------------------
(* Claims about embed_batch (checked under SpecBatch).  Hits and misses    *)
(* are read off the database as it was before the call.                    *)

BatchKey(i) == generate_cache_key(EMBED_MODEL, last.args[i])

WasHit(i) ==
    /\ cm_client /\ ~last.fault.get_err
    /\ BatchKey(i) \in DOMAIN last.before
    /\ Truthy(json_loads(last.before[BatchKey(i)].val))

CachedVector(i) == json_loads(last.before[BatchKey(i)].val)

MissIndices == SelectSeq([i \in 1..Len(last.args) |-> i], LAMBDA i : ~WasHit(i))

MissTexts == [j \in 1..Len(MissIndices) |-> <<last.args[MissIndices[j]]>>]

UpstreamCalls == Count(last.log, "embeddings.create", EMBED_MODEL)

\* C4: position i of the output is the cached vector when texts[i] was a
\* hit and the upstream vector of texts[i] otherwise; every upstream call
\* gets exactly the miss texts, in input order.
C4_BatchOrderPreserved ==
    last.op = "embed_batch" =>
        /\ \A j \in 1..Len(last.log) :
              last.log[j].ev = "embeddings.create" =>
                  last.log[j].val = PyList(MissTexts)
        /\ ~last.raised =>
              \A i \in 1..Len(last.args) :
                  /\ i <= Len(last.ret)
                  /\ last.ret[i] = IF WasHit(i) THEN CachedVector(i)
                                   ELSE Embedding(last.args[i], last.up.ver)

\* miss, hit, miss: the hit keeps the older cached vector
C4_Witness ==
    /\ last.op = "embed_batch" /\ ~last.raised
    /\ last.args = <<"a", "b", "a">>
    /\ ~WasHit(1) /\ WasHit(2) /\ ~WasHit(3)
    /\ last.ret = <<Embedding("a", "2"), Embedding("b", "1"), Embedding("a", "2")>>
    /\ UpstreamCalls = 1

\* C5: at most one upstream batch call per invocation, and none when
\* nothing missed.
C5_AtMostOneUpstreamCall ==
    last.op = "embed_batch" =>
        /\ UpstreamCalls <= 1
        /\ Len(last.log) = UpstreamCalls
        /\ MissIndices = <<>> => UpstreamCalls = 0

\* three misses served by one call
C5_Witness ==
    /\ last.op = "embed_batch" /\ ~last.raised
    /\ Len(MissIndices) = 3
    /\ UpstreamCalls = 1

\* C6: a returned output has one vector per input text, none left unfilled.
C6_OneVectorPerInput ==
    (last.op = "embed_batch" /\ ~last.raised) =>
        /\ Len(last.ret) = Len(last.args)
        /\ \A i \in 1..Len(last.ret) :
              last.ret[i] # PyNone /\ last.ret[i].ty = "list"

\* a mixed call has returned
C6_Witness ==
    /\ last.op = "embed_batch" /\ ~last.raised
    /\ Len(last.args) = 3 /\ Len(last.ret) = 3
    /\ WasHit(1) /\ ~WasHit(2) /\ ~WasHit(3)

\* C7: when the upstream call fails the invocation raises: nothing is
\* returned, not even the hits.
C7_UpstreamFailureRaises ==
    (last.op = "embed_batch" /\ MissIndices # <<>> /\ ~last.up.ok) =>
        /\ last.raised
        /\ last.ret = PyNone
        /\ UpstreamCalls = 1 /\ ~last.log[1].ok

\* the upstream call failed after a hit had been resolved
C7_Witness ==
    /\ last.op = "embed_batch" /\ last.raised
    /\ Len(last.args) = 2 /\ WasHit(1) /\ ~WasHit(2)
    /\ ~last.up.ok

-----------------------------------------------------------------------------
(* The wrapped service methods.  repr of the arguments, as str(args) and   *)
(* str(kwargs items) spell them.                                           *)

\* repr of an instance of a class without __repr__
ReprObject(cls) == "<" \o cls \o " object at " \o proc.addr \o ">"
ReprStr(x) == "'" \o x \o "'"
ReprInt(n) ==
    CASE n = 0 -> "0" [] n = 1 -> "1" [] n = 2 -> "2" [] n = 3 -> "3"
      [] n = 4 -> "4" [] n = 5 -> "5" [] n = 10 -> "10"

Comp(raised, val, db, log, writes, clean) ==
    [raised |-> raised, val |-> val, db |-> db, log |-> log,
     writes |-> writes, clean |-> clean]

\* the body of embed_single: one embeddings.create call; an error is raised
embed_single_body(model, text, up, db) ==
    LET call == Ev("embeddings.create", model, PyList(<<<<text>>>>), up.ok)
    IN  IF up.ok
          THEN Comp(FALSE, embeddings_create(<<text>>, up)[1], db, <<call>>,
                    <<>>, TRUE)
          ELSE Comp(TRUE, PyNone, db, <<call>>, <<>>, FALSE)

\* @cached(prefix="embedding", ttl=config.CACHE_TTL_EMBEDDINGS)
embed_single(model, text, fault, up, db) ==
    wrapper("embed_single", "embedding", "CACHE_TTL_EMBEDDINGS",
            <<ReprObject("EmbeddingService"), ReprStr(text)>>, <<>>,
            fault, db, embed_single_body(model, text, up, db))

\* the vector index holds three vectors: what index.query returns, best first
Ranking == <<"n2", "n1", "n2">>

index_query(query, top_k) ==
    [j \in 1..(IF top_k <= Len(Ranking) THEN top_k ELSE Len(Ranking)) |->
        <<Ranking[j]>>]

\* mutant: the except branch of search returns no matches
search_failed_empty(db, log, writes) ==
    Comp(FALSE, PyList(<<>>), db, log, writes, FALSE)

\* except Exception: log and raise
search_failed(db, log, writes) == Comp(TRUE, PyNone, db, log, writes, FALSE)

\* the body of search: embed the query, query the index, list the matches
search_body(query, top_k, efault, up, index_ok, db) ==
    LET q == embed_single(EMBED_MODEL, query, efault, up, db)
        call == Ev("index.query", query, PyNone, index_ok)
    IN  IF q.raised THEN search_failed(q.db, q.log, q.writes)
        ELSE IF ~index_ok THEN search_failed(q.db, q.log \o <<call>>, q.writes)
        ELSE Comp(FALSE, PyList(index_query(query, top_k)), q.db,
                  q.log \o <<call>>, q.writes, TRUE)

\* @cached(prefix="vector_search", ttl=config.CACHE_TTL_SEARCH_RESULTS),
\* called as search(query_text=query, top_k=top_k, include_metadata=True)
search_kwargs(query, top_k) ==
    <<<<"query_text", ReprStr(query)>>, <<"top_k", ReprInt(top_k)>>,
      <<"include_metadata", "True">>>>

search(query, top_k, fault, efault, up, index_ok, db) ==
    wrapper("search", "vector_search", "CACHE_TTL_SEARCH_RESULTS",
            <<ReprObject("VectorDBService")>>, search_kwargs(query, top_k),
            fault, db, search_body(query, top_k, efault, up, index_ok, db))

\* the graph: the facts MATCH (n {id})-[r]-(m) returns for a node
\* n1 has more neighbours than limit_per_node, n2 fewer
Hub == <<"m01", "m02", "m03", "m04", "m05", "m06", "m07", "m08", "m09", "m10">>

Neighbors(node_id) ==
    IF node_id = "n1"
      THEN <<<<"n1", "LOCATED_IN", "n3">>, <<"n1", "NEAR", "n2">>>>
             \o [j \in 1..Len(Hub) |-> <<"n1", "NEAR", Hub[j]>>]
    ELSE IF node_id = "n2" THEN <<<<"n2", "NEAR", "n1">>>>
    ELSE <<>>

limit_per_node == 10

\* mutant: the query without its LIMIT
Limit_none(facts, limit) == facts

\* LIMIT $limit
Limit(facts, limit) ==
    [j \in 1..(IF Len(facts) <= limit THEN Len(facts) ELSE limit) |-> facts[j]]

\* except Exception: log and return []
fetch_failed(db, log) == Comp(FALSE, PyList(<<>>), db, log, <<>>, FALSE)

\* the body of fetch_neighborhood: one session.run
fetch_neighborhood_body(node_id, limit, run_ok, db) ==
    LET call == Ev("session.run", node_id, PyNone, run_ok)
    IN  IF run_ok
          THEN Comp(FALSE, PyList(Limit(Neighbors(node_id), limit)), db,
                    <<call>>, <<>>, TRUE)
          ELSE fetch_failed(db, <<call>>)

\* @cached(prefix="graph_context", ttl=config.CACHE_TTL_GRAPH_CONTEXT),
\* called as fetch_neighborhood(node_id, depth, limit_per_node)
fetch_neighborhood(node_id, depth, limit, fault, run_ok, db) ==
    wrapper("fetch_neighborhood", "graph_context", "CACHE_TTL_GRAPH_CONTEXT",
            <<ReprObject("GraphDBService"), ReprStr(node_id), ReprInt(depth),
              ReprInt(limit)>>, <<>>,
            fault, db, fetch_neighborhood_body(node_id, limit, run_ok, db))

\* node_ids = [match["id"] for match in vector_matches]
\* mutant: the ids are taken last match first
node_ids_of_reversed(vector_matches) ==
    [j \in 1..Len(vector_matches) |->
        vector_matches[Len(vector_matches) + 1 - j][1]]

node_ids_of(vector_matches) ==
    [j \in 1..Len(vector_matches) |-> vector_matches[j][1]]

\* mutant: the new facts are put in front
extend_front(all_facts, facts) == facts \o all_facts

\* all_facts.extend(facts)
extend(all_facts, facts) == all_facts \o facts

-----------------------------------------------------------------------------
(* HybridChatService.retrieve_context, one step per wrapped call: the      *)
(* search, then one fetch_neighborhood per candidate, then the return.     *)

Queries == {"q"}

SingleOutcomes == {u \in UpOutcomes : u.ver = "1"}

RetrieveRaised(stage, log) ==
    [op |-> "retrieve_context", query |-> rc.query, top_k |-> rc.top_k,
     raised |-> TRUE, stage |-> stage, ret |-> PyNone,
     segments |-> rc.segments, log |-> log]

RetrieveSearch(query, top_k, fault, efault, up, index_ok) ==
    /\ rc.pc = "idle" /\ last.op = "none"
    /\ \E res \in {search(query, top_k, fault, efault, up, index_ok, store)} :
          /\ store' = res.db
          /\ origin' = Written(origin, res.writes)
          /\ IF res.raised
               THEN /\ rc' = Idle
                    /\ last' = [RetrieveRaised("search", res.log)
                                  EXCEPT !.query = query, !.top_k = top_k]
               ELSE /\ rc' = [pc |-> "graph", query |-> query, top_k |-> top_k,
                              matches |-> res.ret.items, i |-> 1,
                              all_facts |-> <<>>, segments |-> <<>>,
                              log |-> res.log]
                    /\ last' = NoCall
    /\ UNCHANGED <<cm_client, proc, redis_up, thr>>

\* one turn of the loop of fetch_multi_neighborhood
RetrieveFetch(fault, run_ok) ==
    /\ rc.pc = "graph"
    /\ rc.i <= Len(rc.matches)
    /\ LET node_id == node_ids_of(rc.matches)[rc.i]
       IN  \E res \in {fetch_neighborhood(node_id, 1, limit_per_node, fault,
                                          run_ok, store)} :
              /\ store' = res.db
              /\ origin' = Written(origin, res.writes)
              /\ IF res.raised
                   THEN /\ rc' = Idle
                        /\ last' = RetrieveRaised("graph", rc.log \o res.log)
                   ELSE /\ rc' = [rc EXCEPT
                                    !.i = rc.i + 1,
                                    !.all_facts = extend(rc.all_facts, res.ret.items),
                                    !.segments = Append(rc.segments,
                                        [node |-> node_id, hit |-> res.hit,
                                         failed |-> \E j \in 1..Len(res.log) :
                                             /\ res.log[j].ev = "session.run"
                                             /\ ~res.log[j].ok,
                                         facts |-> res.ret.items])]
                        /\ last' = NoCall
    /\ UNCHANGED <<cm_client, proc, redis_up, thr>>

RetrieveReturn ==
    /\ rc.pc = "graph"
    /\ rc.i > Len(rc.matches)
    /\ rc' = Idle
    /\ last' = [op |-> "retrieve_context", query |-> rc.query,
                top_k |-> rc.top_k, raised |-> FALSE, stage |-> "done",
                ret |-> [vector_matches |-> rc.matches,
                         graph_facts |-> rc.all_facts, query |-> rc.query],
                segments |-> rc.segments, log |-> rc.log]
    /\ UNCHANGED <<store, origin, cm_client, proc, redis_up, thr>>

NextRetrieve ==
    \/ \E query \in Queries, top_k \in 1..MaxTopK, fault, efault \in CacheFaults,
          up \in SingleOutcomes, index_ok \in BOOLEAN :
          RetrieveSearch(query, top_k, fault, efault, up, index_ok)
    \/ \E fault \in CacheFaults, run_ok \in BOOLEAN : RetrieveFetch(fault, run_ok)
    \/ RetrieveReturn
    \/ \E k \in DOMAIN store : Expire(k)
    \/ Forget

SpecRetrieve == InitFunc /\ [][NextRetrieve]_vars

-----------------------------------------------------------------------------
(* Claims about the cache contents and retrieve_context (SpecRetrieve)     *)

\* C2: every entry in the cache was written from the result of a
\* computation in which no upstream call failed.
C2_OnlySuccessfulResultsCached ==
    \A k \in DOMAIN store : origin[k].clean

Retrieved == last.op = "retrieve_context"

RECURSIVE Flatten(_)
Flatten(segs) ==
    IF segs = <<>> THEN <<>> ELSE Head(segs).facts \o Flatten(Tail(segs))

CacheInitRaised ==
    \E j \in 1..Len(last.log) : last.log[j].ev = "CacheManager" /\ ~last.log[j].ok

FailedNodes ==
    {last.segments[i].node : i \in {j \in 1..Len(last.segments) :
                                       last.segments[j].failed}}

\* C8: when the graph query of one candidate fails and every other fetch
\* returns, retrieve_context returns a context in which the failing node
\* contributes no facts and every other candidate contributes its
\* neighbourhood facts.
C8_FailedFetchIsIsolated ==
    (Retrieved /\ last.stage # "search" /\ ~CacheInitRaised
              /\ FailedNodes # {}) =>
        /\ ~last.raised
        /\ last.ret.graph_facts = Flatten(last.segments)
        /\ \A i \in 1..Len(last.segments) :
              LET seg == last.segments[i]
              IN  /\ seg.failed => seg.facts = <<>>
                  /\ seg.node \notin FailedNodes =>
                        seg.facts = Limit(Neighbors(seg.node), limit_per_node)

SearchFailed ==
    \E j \in 1..Len(last.log) :
        /\ last.log[j].ev \in {"embeddings.create", "index.query"}
        /\ ~last.log[j].ok

\* C9: when the query embedding or the index query fails, retrieve_context
\* raises, returns no context and makes no graph fetch.
C9_SearchFailureAborts ==
    (Retrieved /\ SearchFailed) =>
        /\ last.raised /\ last.stage = "search"
        /\ last.ret = PyNone
        /\ last.segments = <<>>
        /\ \A j \in 1..Len(last.log) :
              /\ last.log[j].ev # "session.run"
              /\ last.log[j].key # "fetch_neighborhood"

\* the embedding was there, the index query failed
C9_Witness ==
    /\ Retrieved /\ last.raised
    /\ \E j \in 1..Len(last.log) :
          last.log[j] = Ev("index.query", "q", PyNone, FALSE)
    /\ \A j \in 1..Len(last.log) : last.log[j].ev # "embeddings.create"

\* C10: the context holds the matches in the order of the index, and its
\* graph_facts are the candidates' neighbourhood facts, one segment per
\* occurrence of a candidate, in candidate order.
C10_OrderAndSegments ==
    (Retrieved /\ ~last.raised) =>
        /\ last.ret.vector_matches = index_query(last.query, last.top_k)
        /\ Len(last.segments) = Len(last.ret.vector_matches)
        /\ \A i \in 1..Len(last.segments) :
              /\ last.segments[i].node = last.ret.vector_matches[i][1]
              /\ \A j \in 1..Len(last.segments[i].facts) :
                    last.segments[i].facts[j][1] = last.segments[i].node
              /\ last.segments[i].facts \in
                    {<<>>, Limit(Neighbors(last.segments[i].node), limit_per_node)}
        /\ last.ret.graph_facts = Flatten(last.segments)

\* n2, n1, n2: the facts of n2 appear twice, around those of n1
C10_Witness ==
    /\ Retrieved /\ ~last.raised
    /\ last.ret.vector_matches = <<<<"n2">>, <<"n1">>, <<"n2">>>>
    /\ last.ret.graph_facts =
          Neighbors("n2") \o Limit(Neighbors("n1"), limit_per_node)
                          \o Neighbors("n2")

-----------------------------------------------------------------------------
(* Key derivation, call after call and process after process.  A call is   *)
(*   kind "cached": a call of a callable wrapped by cached(prefix): self   *)
(*     is the class of the bound instance ("" for a plain function), args   *)
(*     the reprs of the other positional arguments, kwargs the keyword     *)
(*     arguments as <<name, repr>> in insertion order;                      *)
(*   kind "batch": one text of embed_batch.                                *)

Prefixes == {"embedding", "vector_search"}

KeyArgs == {<<ReprStr("1")>>, <<ReprInt(1)>>}

KeyKwargs ==
    { <<>>,
      <<<<"query_text", ReprStr("x")>>, <<"top_k", ReprInt(1)>>>>,
      <<<<"top_k", ReprInt(1)>>, <<"query_text", ReprStr("x")>>>>,
      <<<<"query_text", ReprStr("y")>>, <<"top_k", ReprInt(1)>>>> }

KeyCalls ==
    [kind : {"cached"}, prefix : Prefixes, self : {"", "VectorDBService"},
     args : KeyArgs, kwargs : KeyKwargs]
      \cup [kind : {"batch"}, model : {EMBED_MODEL}, text : Texts]

\* the key the running process derives for a call: wrapper passes
\* (self, *args) and kwargs to _generate_key; embed_batch passes the text
\* to _generate_cache_key
key_of(call) ==
    IF call.kind = "cached"
      THEN generate_key(call.prefix,
                        (IF call.self = "" THEN <<>>
                         ELSE <<ReprObject(call.self)>>) \o call.args,
                        call.kwargs)
      ELSE generate_cache_key(call.model, call.text)

\* the running process derives the key of a call; the derivation before it
\* is remembered
DeriveKey(call) ==
    /\ rc.pc = "idle"
    /\ last' = [op |-> "key", call |-> call, key |-> key_of(call),
                proc |-> proc,
                old |-> IF last.op = "key"
                          THEN <<[call |-> last.call, key |-> last.key,
                                  proc |-> last.proc]>>
                          ELSE <<>>]
    /\ UNCHANGED <<store, origin, cm_client, rc, proc, redis_up, thr>>

\* the process ends and a new one imports the modules: new addresses, a new
\* hash seed, a new global CacheManager whose handshake returns when the
\* server can be reached and raises ConnectionError when it cannot
Restart(p, hs) ==
    /\ rc.pc = "idle"
    /\ hs = (IF redis_up THEN "ok" ELSE "ConnectionError")
    /\ proc' = p
    /\ cm_client' = CacheManager_init(hs).client
    /\ UNCHANGED <<store, origin, last, rc, redis_up, thr>>

NextKeys ==
    \/ \E call \in KeyCalls : DeriveKey(call)
    \/ \E p \in Procs, hs \in Handshakes : Restart(p, hs)

SpecKeys == InitFunc /\ [][NextKeys]_vars

-----------------------------------------------------------------------------
(* Claims about key derivation (checked under SpecKeys)                    *)

Derived2 == last.op = "key" /\ last.old # <<>>

KwSet(kwargs) == {kwargs[i] : i \in 1..Len(kwargs)}

\* the same call up to the insertion order of the keyword arguments
SameCall(a, b) ==
    /\ a.kind = b.kind
    /\ IF a.kind = "cached"
         THEN /\ a.prefix = b.prefix /\ a.self = b.self /\ a.args = b.args
              /\ KwSet(a.kwargs) = KwSet(b.kwargs)
         ELSE a = b

\* C11: the key of a call does not depend on the process that derives it:
\* two derivations for the same call give the same key, in the same process
\* or in two.
C11_KeyStableAcrossRestarts ==
    (Derived2 /\ SameCall(last.call, last.old[1].call)) =>
        last.key = last.old[1].key

StartsWith(str, pre) ==
    Len(str) >= Len(pre) /\ SubSeq(str, 1, Len(pre)) = pre

\* C12: within a process, a wrapped call's key is the same for the same
\* namespace, arguments and keyword arguments in any insertion order,
\* differs when the namespace or an argument differs, and starts with the
\* namespace and ':'.
C12_KeyDeterministicAndDiscriminating ==
    (last.op = "key" /\ last.call.kind = "cached") =>
        /\ StartsWith(last.key, last.call.prefix \o ":")
        /\ (/\ last.old # <<>> /\ last.old[1].call.kind = "cached"
            /\ last.old[1].proc = last.proc) =>
              (SameCall(last.call, last.old[1].call)
                  <=> last.key = last.old[1].key)

\* the same two keyword arguments in the other order gave the same key
C12_Witness ==
    /\ Derived2 /\ last.old[1].proc = last.proc
    /\ last.call.kind = "cached" /\ last.call.self = "VectorDBService"
    /\ last.call.kwargs =
          <<<<"top_k", ReprInt(1)>>, <<"query_text", ReprStr("x")>>>>
    /\ last.old[1].call.kwargs =
          <<<<"query_text", ReprStr("x")>>, <<"top_k", ReprInt(1)>>>>
    /\ last.old[1].call.args = last.call.args
    /\ last.old[1].call.prefix = last.call.prefix
    /\ last.key = last.old[1].key

-----------------------------------------------------------------------------
(* The global cache_manager and the two embedding paths, with a server     *)
(* that goes down and comes back.  While the server is down every backend   *)
(* call raises and every handshake fails; while it is up a call may still   *)
(* fail.                                                                    *)

\* the key the wrapper derives for embedding_service.embed_single(text)
SingleKey(text) ==
    generate_key("embedding", <<ReprObject("EmbeddingService"), ReprStr(text)>>,
                 <<>>)

MgrKeys ==
    {SingleKey("a"), generate_cache_key(EMBED_MODEL, "a"), "graph_context:k1"}

MgrValues == {PyList(<<<<"v">>>>), PyNone, PySet(<<<<"1">>>>)}

MgrTtls == {NoTtl, "60", "0"}

MgrPatterns ==
    {"embedding:" \o EMBED_MODEL \o ":*", "embedding:*", "graph_context:k1", "*"}

\* a backend call of the global instance raises or not
ErrFits(err) == ~redis_up => err

\* the faults of a call that constructs its own CacheManager
FaultFits(fault) ==
    IF redis_up THEN TRUE
    ELSE fault.hs # "ok"

\* the faults of a call on the global instance
GlobalFaultFits(fault) == ~redis_up => (fault.get_err /\ fault.set_err)

Dropped(o, db) == [k \in DOMAIN o \cap DOMAIN db |-> o[k]]

MgrGet(key, err) ==
    /\ rc.pc = "idle" /\ last.op = "none" /\ ErrFits(err)
    /\ last' = [op |-> "get", key |-> key, err |-> err, before |-> store,
                ret |-> cache_get(cm_client, err, store, key),
                calls |-> IF is_available(cm_client) THEN <<"GET">> ELSE <<>>]
    /\ UNCHANGED <<store, origin, cm_client, rc, proc, redis_up, thr>>

MgrSet(key, value, ttl, err) ==
    /\ rc.pc = "idle" /\ last.op = "none" /\ ErrFits(err)
    /\ \E w \in {cache_set(cm_client, err, store, key, value, ttl)} :
          /\ store' = w.db
          /\ origin' = IF w.ok
                         THEN Written(origin, <<[key |-> key, val |-> value,
                                                 clean |-> TRUE]>>)
                         ELSE origin
          /\ last' = [op |-> "set", key |-> key, value |-> value, ttl |-> ttl,
                      err |-> err, before |-> store, ret |-> w.ok,
                      calls |-> IF is_available(cm_client) /\ Serializable(value)
                                  THEN <<"SETEX">> ELSE <<>>]
    /\ UNCHANGED <<cm_client, rc, proc, redis_up, thr>>

MgrDelete(key, err) ==
    /\ rc.pc = "idle" /\ last.op = "none" /\ ErrFits(err)
    /\ \E res \in {cache_delete(cm_client, err, store, key)} :
          /\ store' = res.db
          /\ origin' = Dropped(origin, res.db)
          /\ last' = [op |-> "delete", key |-> key, err |-> err,
                      before |-> store, ret |-> res.ret, calls |-> res.calls]
    /\ UNCHANGED <<cm_client, rc, proc, redis_up, thr>>

MgrClearPattern(pattern, err, gone) ==
    /\ rc.pc = "idle" /\ last.op = "none" /\ ErrFits(err # "none")
    /\ \E res \in {clear_pattern(cm_client, err, store, pattern, gone)} :
          /\ store' = res.db
          /\ origin' = Dropped(origin, res.db)
          /\ last' = [op |-> "clear_pattern", pattern |-> pattern, err |-> err,
                      gone |-> gone, before |-> store, ret |-> res.ret,
                      calls |-> res.calls]
    /\ UNCHANGED <<cm_client, rc, proc, redis_up, thr>>

MgrFlushAll(err) ==
    /\ rc.pc = "idle" /\ last.op = "none" /\ ErrFits(err)
    /\ \E res \in {flush_all(cm_client, err, store)} :
          /\ store' = res.db
          /\ origin' = Dropped(origin, res.db)
          /\ last' = [op |-> "flush_all", err |-> err, before |-> store,
                      ret |-> res.ret, calls |-> res.calls]
    /\ UNCHANGED <<cm_client, rc, proc, redis_up, thr>>

\* EmbeddingService.clear_cache: clear_pattern on the global instance, the
\* count is dropped
ClearCache(err) ==
    /\ rc.pc = "idle" /\ last.op = "none" /\ ErrFits(err # "none")
    /\ \E res \in {clear_pattern(cm_client, err, store,
                                 "embedding:" \o EMBED_MODEL \o ":*", {})} :
          /\ store' = res.db
          /\ origin' = Dropped(origin, res.db)
          /\ last' = [op |-> "clear_cache", err |-> err, before |-> store,
                      ret |-> PyNone, calls |-> res.calls]
    /\ UNCHANGED <<cm_client, rc, proc, redis_up, thr>>

\* embedding_service.embed_single(text)
EmbedSingle(text, fault, up) ==
    /\ rc.pc = "idle" /\ last.op = "none" /\ FaultFits(fault)
    /\ \E res \in {embed_single(EMBED_MODEL, text, fault, up, store)} :
          /\ store' = res.db
          /\ origin' = Written(origin, res.writes)
          /\ last' = [op |-> "embed_single", args |-> <<text>>,
                      fault |-> fault, before |-> store, up |-> up,
                      raised |-> res.raised, ret |-> res.ret, hit |-> res.hit,
                      log |-> res.log, writes |-> res.writes]
    /\ UNCHANGED <<cm_client, rc, proc, redis_up, thr>>

\* something else than this program writes a text that is not JSON
ForeignWrite(key) ==
    /\ rc.pc = "idle" /\ last.op = "none" /\ redis_up
    /\ store' = RedisSetex(store, key, "60", Garbage)
    /\ origin' = Written(origin, <<[key |-> key, val |-> PyNone,
                                    clean |-> FALSE]>>)
    /\ UNCHANGED <<cm_client, last, rc, proc, redis_up, thr>>

\* the server becomes unreachable, or reachable again
BackendDown ==
    /\ rc.pc = "idle" /\ last.op = "none" /\ redis_up
    /\ redis_up' = FALSE
    /\ UNCHANGED <<store, origin, cm_client, last, rc, proc, thr>>

BackendUp ==
    /\ rc.pc = "idle" /\ last.op = "none" /\ ~redis_up
    /\ redis_up' = TRUE
    /\ UNCHANGED <<store, origin, cm_client, last, rc, proc, thr>>

NextManager ==
    \/ \E key \in MgrKeys, err \in BOOLEAN : MgrGet(key, err)
    \/ \E key \in MgrKeys, value \in MgrValues, ttl \in MgrTtls,
          err \in BOOLEAN : MgrSet(key, value, ttl, err)
    \/ \E key \in MgrKeys, err \in BOOLEAN : MgrDelete(key, err)
    \/ \E pattern \in MgrPatterns, err \in {"none", "keys", "delete"},
          gone \in {{}} \cup {{k} : k \in MgrKeys} :
          MgrClearPattern(pattern, err, gone)
    \/ \E err \in BOOLEAN : MgrFlushAll(err)
    \/ \E err \in {"none", "keys", "delete"} : ClearCache(err)
    \/ \E fault \in CacheFaults, up \in SingleOutcomes :
          EmbedSingle("a", fault, up)
    \/ \E fault \in BatchFaults, up \in SingleOutcomes :
          GlobalFaultFits(fault) /\ EmbedBatch(<<"a">>, fault, up)
    \/ \E key \in MgrKeys : ForeignWrite(key)
    \/ BackendDown
    \/ BackendUp
    \/ \E k \in DOMAIN store : redis_up /\ Expire(k)
    \/ Forget

SpecManager == Init /\ [][NextManager]_vars

-----------------------------------------------------------------------------
(* Claims about the embedding cache and the global instance (SpecManager)  *)

\* the entry of key holds an embedding of text
EmbStored(db, key, text) ==
    /\ key \in DOMAIN db
    /\ \E ver \in {"1", "2"} : db[key].val = json_dumps(Embedding(text, ver))

EmbedCalls == Count(last.log, "embeddings.create", EMBED_MODEL)

\* C13: an embedding one path has cached for (model, text) is a hit for the
\* other path: embed_single makes no upstream call for a text embed_batch
\* has cached, and embed_batch none for a text embed_single has cached.
C13_EmbeddingSharedByBothPaths ==
    /\ (/\ last.op = "embed_single" /\ last.fault = NoFault
        /\ EmbStored(last.before,
                     generate_cache_key(EMBED_MODEL, last.args[1]),
                     last.args[1])) =>
          (last.hit /\ EmbedCalls = 0)
    /\ (/\ last.op = "embed_batch" /\ cm_client /\ last.fault = NoFault
        /\ \A i \in 1..Len(last.args) :
              EmbStored(last.before, SingleKey(last.args[i]), last.args[i])) =>
          EmbedCalls = 0

Cleared == last.op = "clear_pattern"

\* what a get on the same instance returns next, the backend answering
NextGet(key) == cache_get(cm_client, FALSE, store, key)

\* the keys the call removed (not those that expired by themselves)
DeletedKeys == (DOMAIN last.before \ DOMAIN store) \ last.gone

ClearedAsClaimed ==
    /\ \A k \in MgrKeys :
          IF GlobMatch(last.pattern, k)
            THEN NextGet(k) = PyNone
            ELSE k \in DOMAIN last.before =>
                    (k \in DOMAIN store /\ store[k] = last.before[k])
    /\ last.ret = Cardinality(DeletedKeys)

\* C14 as stated: after clear_pattern(p) has returned, a get of any key
\* matching p is a miss, every other key holds what it held, and the count
\* returned is the number of keys deleted.
C14_AsStated == Cleared => ClearedAsClaimed

\* C14 amended: the same, when neither backend call of clear_pattern raised.
C14_ClearPatternClears ==
    (Cleared /\ last.err = "none") =>
        /\ ClearedAsClaimed
        /\ cm_client =>
              /\ RedisKeys(store, last.pattern) = {}
              /\ DeletedKeys = RedisKeys(last.before, last.pattern) \ last.gone

\* the embed_batch entries were cleared, the others kept
C14_Witness ==
    /\ Cleared /\ last.err = "none" /\ cm_client
    /\ last.pattern = "embedding:" \o EMBED_MODEL \o ":*"
    /\ DOMAIN last.before = MgrKeys
    /\ DOMAIN store = MgrKeys \ {generate_cache_key(EMBED_MODEL, "a")}
    /\ last.ret = 1

\* C15: after clear_cache() on a reachable cache, no embedding of the
\* service's model is left, whichever path cached it: the next request for
\* the text is a miss.
C15_ClearCacheClearsAllEmbeddings ==
    (last.op = "clear_cache" /\ cm_client /\ last.err = "none") =>
        \A text \in Texts :
            /\ ~EmbStored(store, generate_cache_key(EMBED_MODEL, text), text)
            /\ ~EmbStored(store, SingleKey(text), text)

MgrOps == {"get", "set", "delete", "clear_pattern", "flush_all"}

DegradedNoOp ==
    (~cm_client /\ last.op \in MgrOps) =>
        /\ last.calls = <<>>
        /\ store = last.before
        /\ last.ret = CASE last.op = "get" -> PyNone
                        [] last.op = "clear_pattern" -> 0
                        [] OTHER -> FALSE

\* C16: an instance whose handshake failed never becomes available, and
\* every operation on it returns miss/false/0 without a backend call and
\* without a change of the store.
C16_DegradedForLifetime ==
    [](DegradedNoOp /\ (~cm_client => ~is_available(cm_client)))
      /\ [][~cm_client => ~cm_client']_vars

\* the server is back, the degraded instance still refuses a set
C16_Witness ==
    /\ ~cm_client /\ redis_up
    /\ last.op = "set" /\ last.value = PyList(<<<<"v">>>>)
    /\ last.ret = FALSE /\ store = last.before

\* the instance has a connection and the server behind it can be reached
Healthy == cm_client /\ redis_up

\* C17: is_available() is true exactly when the backing connection is
\* healthy.
C17_AvailableIffHealthy == is_available(cm_client) <=> Healthy

\* C19: get never raises; it returns None when the instance is unavailable,
\* when the backend call fails, when there is no entry and when the entry
\* is not JSON, and the deserialised entry otherwise.
C19_GetNeverRaises ==
    last.op = "get" =>
        /\ last.ret # PyRaised
        /\ last.ret =
              IF \/ ~cm_client \/ last.err
                 \/ last.key \notin DOMAIN last.before
                THEN PyNone
              ELSE IF ~Decodable(last.before[last.key].val) THEN PyNone
              ELSE json_loads(last.before[last.key].val)
        /\ store = last.before

\* an entry that is not JSON was read as a miss
C19_Witness ==
    /\ last.op = "get" /\ cm_client /\ ~last.err
    /\ last.key \in DOMAIN last.before
    /\ last.before[last.key].val = Garbage
    /\ last.ret = PyNone

-----------------------------------------------------------------------------
(* Claims about cache faults in a wrapped call (checked under Spec)        *)

\* C18: whatever way the handshake fails, the constructor returns an
\* instance (a degraded one) and does not raise.
C18_ConstructorNeverRaises ==
    (last.op = "get_embedding" /\ last.fault.hs # "ok") =>
        /\ last.log # <<>>
        /\ last.log[1] = Ev("CacheManager", "get_embedding", PyNone, TRUE)

\* C20: when the cache cannot be obtained, read or written, the call still
\* returns what compute returned.
C20_CacheFaultNeverFailsCaller ==
    (last.op = "get_embedding" /\ last.fault # NoFault /\ ~last.comp.raised) =>
        /\ ~last.raised
        /\ last.hit \/ last.ret = last.comp.val

\* the call ran with the cache degraded or unavailable: the handshake of its
\* CacheManager failed, or both backend calls of the call raised
CacheUnavailable(fault) ==
    fault.hs # "ok" \/ (fault.get_err /\ fault.set_err)

\* C21: with the cache degraded or unavailable, a wrapped call behaves as the
\* wrapped function itself: it invokes compute once, returns what compute
\* returned and raises exactly when compute raised.
C21_DegradedEqualsUnwrapped ==
    (last.op = "get_embedding" /\ CacheUnavailable(last.fault)) =>
        /\ Computes("get_embedding") = 1
        /\ last.raised = last.comp.raised
        /\ ~last.raised => last.ret = last.comp.val

\* the wrapper of the call obtained its CacheManager
CacheConstructed(fault) == ~CacheManager_init(fault.hs).raised

\* C29: a call that finds the entry an earlier call wrote from a None result
\* is not a hit and invokes compute again (the wrapper having obtained its
\* cache instance).
C29_NoneNeverServed ==
    (/\ last.op = "get_embedding" /\ CacheConstructed(last.fault)
     /\ last.had /\ last.prev.val = PyNone) =>
        /\ ~last.hit
        /\ Computes("get_embedding") = 1

C29_Witness ==
    /\ last.op = "get_embedding" /\ last.fault = NoFault
    /\ last.had /\ last.prev.val = PyNone
    /\ ~last.hit /\ Computes("get_embedding") = 1

-----------------------------------------------------------------------------
(* Claims about the expiry of written entries (checked under SpecManager)  *)

\* the expiry the documentation of set gives an entry: ttl, the default
\* when ttl is None
DocumentedTtl(ttl) == IF ttl = NoTtl THEN default_ttl ELSE ttl

\* the writes of the embedding call just made carry the embedding TTL
EmbeddingWritesCarry(ttl) ==
    \A i \in 1..Len(last.writes) :
        /\ last.writes[i].key \in DOMAIN store
        /\ store[last.writes[i].key].ttl = ttl

\* C25: set returns true exactly when it wrote, and then the entry holds the
\* serialized value with expiry ttl (the default TTL when ttl was omitted);
\* the entries an embed_single or embed_batch call wrote carry the embedding
\* TTL.
C25_WritesCarryExpiry ==
    /\ last.op = "set" =>
          /\ last.ret =>
                /\ last.key \in DOMAIN store
                /\ store[last.key] = [val |-> json_dumps(last.value),
                                      ttl |-> DocumentedTtl(last.ttl)]
          /\ ~last.ret => store = last.before
          /\ last.ret <=> (last.calls = <<"SETEX">> /\ ~last.err)
    /\ last.op \in {"embed_single", "embed_batch"} =>
          EmbeddingWritesCarry("CACHE_TTL_EMBEDDINGS")

-----------------------------------------------------------------------------
(* Claims about the cache writes of embed_batch (checked under SpecBatch)  *)

MissKeys == {BatchKey(MissIndices[j]) : j \in 1..Len(MissIndices)}

\* the entry of key k is as it was before the call
Untouched(k) ==
    IF k \in DOMAIN last.before
      THEN k \in DOMAIN store /\ store[k] = last.before[k]
      ELSE k \notin DOMAIN store

\* C28: embed_batch writes only (key, vector) pairs of miss indices, the
\* vector being the one it returns at that index; every other entry, the
\* entries of hit keys among them, is left as it was; when the upstream call
\* fails nothing is written and the cache is as before the invocation.
C28_BatchWritesOnlyMisses ==
    last.op = "embed_batch" =>
        /\ \A i \in 1..Len(last.writes) :
              \E j \in 1..Len(MissIndices) :
                 /\ last.writes[i].key = BatchKey(MissIndices[j])
                 /\ last.writes[i].val = last.ret[MissIndices[j]]
        /\ \A k \in (DOMAIN store \cup DOMAIN last.before) \ MissKeys :
              Untouched(k)
        /\ \A k \in MissKeys :
              Untouched(k) \/ \E i \in 1..Len(last.writes) :
                                 /\ last.writes[i].key = k
                                 /\ store[k].val = json_dumps(last.writes[i].val)
        /\ (last.raised \/ ~last.up.ok \/ UpstreamCalls = 0) =>
              /\ last.writes = <<>>
              /\ store = last.before

\* a batch of a hit and a miss: the miss is written, the hit entry stays
C28_Witness ==
    /\ last.op = "embed_batch" /\ ~last.raised
    /\ Len(last.args) = 2 /\ WasHit(1) /\ ~WasHit(2)
    /\ Len(last.writes) = 1
    /\ store[BatchKey(1)] = last.before[BatchKey(1)]
    /\ BatchKey(2) \in DOMAIN store

-----------------------------------------------------------------------------
(* Claims about the handshake of a wrapped call (checked under             *)
(* SpecManager, where the server goes down and comes back)                 *)

\* the entry a call of embed_single finds for its text, None without one
SingleFound ==
    LET k == SingleKey(last.args[1])
    IN  IF k \in DOMAIN last.before /\ Decodable(last.before[k].val)
          THEN json_loads(last.before[k].val) ELSE PyNone

\* C30: whether a wrapped call uses the cache is decided by its own
\* handshake, whatever the state of the global instance: with the backend
\* reachable during the call it returns the entry it finds and otherwise
\* writes what it computed; with its handshake refused it neither reads nor
\* writes.
C30_FreshHandshakePerCall ==
    last.op = "embed_single" =>
        LET k == SingleKey(last.args[1])
        IN  /\ last.fault = NoFault =>
                  /\ SingleFound # PyNone =>
                        /\ last.hit /\ last.ret = SingleFound
                        /\ store = last.before
                  /\ (SingleFound = PyNone /\ last.up.ok) =>
                        /\ Len(last.writes) = 1
                        /\ k \in DOMAIN store
                        /\ store[k].val = json_dumps(last.ret)
            /\ last.fault.hs = "ConnectionError" =>
                  /\ ~last.hit /\ last.writes = <<>>
                  /\ store = last.before
                  /\ Computes("embed_single") = 1

\* the backend has recovered: the global instance is still degraded and a
\* wrapped call has written its result
C30_Witness ==
    /\ ~cm_client /\ redis_up
    /\ last.op = "embed_single" /\ last.fault = NoFault
    /\ Len(last.writes) = 1
    /\ SingleKey(last.args[1]) \in DOMAIN store

-----------------------------------------------------------------------------
(* Claims about the size of a retrieval context (checked under             *)
(* SpecRetrieve)                                                           *)

\* C26: every candidate contributes at most limit_per_node facts, served
\* from the cache or fetched, so graph_facts has at most limit_per_node
\* times as many elements as there are vector matches.
C26_FactsBounded ==
    (Retrieved /\ ~last.raised) =>
        /\ \A i \in 1..Len(last.segments) :
              Len(last.segments[i].facts) <= limit_per_node
        /\ Len(last.ret.graph_facts) <=
              limit_per_node * Len(last.ret.vector_matches)

\* n1 has twelve neighbours: ten of them come back, from the cache
C26_Witness ==
    /\ Retrieved /\ ~last.raised
    /\ Len(Neighbors("n1")) > limit_per_node
    /\ \E i \in 1..Len(last.segments) :
          /\ last.segments[i].node = "n1" /\ last.segments[i].hit
          /\ Len(last.segments[i].facts) = limit_per_node

-----------------------------------------------------------------------------
(* HybridChatService.retrieve_context and chat, each as one call.          *)
(*   fault    what the cache backend does during the call, for every       *)
(*            wrapped call made in it                                      *)
(*   up, index_ok   what the embedding API and the vector index do         *)
(*   run_oks  run_oks[j]: the graph query of the j-th candidate returns    *)

\* the element of a singleton: The({e(x) : x \in {v}}) is e(v), with v
\* evaluated once
The(S) == CHOOSE x \in S : TRUE

\* the loop of fetch_multi_neighborhood from position i on; acc is what the
\* turns before have gathered
RECURSIVE fetch_loop(_, _, _, _, _, _, _, _)
fetch_loop(node_ids, i, depth, limit, fault, run_oks, db, acc) ==
    IF i > Len(node_ids)
      THEN [raised |-> FALSE, all_facts |-> acc.all_facts, db |-> db,
            log |-> acc.log, writes |-> acc.writes]
    ELSE The({
           IF res.raised
             THEN [raised |-> TRUE, all_facts |-> <<>>, db |-> res.db,
                   log |-> acc.log \o res.log,
                   writes |-> acc.writes \o res.writes]
           ELSE The({fetch_loop(node_ids, i + 1, depth, limit, fault, run_oks,
                                res.db, a)
                     : a \in {[all_facts |-> extend(acc.all_facts,
                                                    res.ret.items),
                               log |-> acc.log \o res.log,
                               writes |-> acc.writes \o res.writes]}})
           : res \in {fetch_neighborhood(node_ids[i], depth, limit, fault,
                                         run_oks[i], db)}})

fetch_multi_neighborhood(node_ids, depth, limit, fault, run_oks, db) ==
    fetch_loop(node_ids, 1, depth, limit, fault, run_oks, db,
               [all_facts |-> <<>>, log |-> <<>>, writes |-> <<>>])

\* the rest of retrieve_context, s being what the search did
retrieve_graph(query, fault, run_oks, s) ==
    The({
      IF g.raised
        THEN [raised |-> TRUE, ret |-> PyNone, db |-> g.db,
              log |-> s.log \o g.log, writes |-> s.writes \o g.writes]
      ELSE [raised |-> FALSE,
            ret |-> [vector_matches |-> s.ret.items,
                     graph_facts |-> g.all_facts, query |-> query],
            db |-> g.db, log |-> s.log \o g.log,
            writes |-> s.writes \o g.writes]
      : g \in {fetch_multi_neighborhood(node_ids_of(s.ret.items), 1,
                                        limit_per_node, fault, run_oks, s.db)}})

\* [raised, ret, db, log, writes]
retrieve_context(query, top_k, fault, up, index_ok, run_oks, db) ==
    The({
      IF s.raised
        THEN [raised |-> TRUE, ret |-> PyNone, db |-> s.db, log |-> s.log,
              writes |-> s.writes]
      ELSE retrieve_graph(query, fault, run_oks, s)
      : s \in {search(query, top_k, fault, fault, up, index_ok, db)}})

\* vec_context[:10], graph_context[:20]
Prefix(seq, n) == [j \in 1..(IF Len(seq) <= n THEN Len(seq) ELSE n) |-> seq[j]]

\* the messages of build_prompt: the system message, then the user message
\* made of the query, ten matches and twenty facts
build_prompt(query, vector_matches, graph_facts) ==
    <<"system", <<query, Prefix(vector_matches, 10), Prefix(graph_facts, 20)>>>>

\* the content of the completion the chat model returns for the messages
generate_response(messages) == <<"completion", messages>>

\* mutant: the except branch of chat keeps the context it had retrieved
chat_failed_partial(query, e, ctx) ==
    [raised |-> FALSE,
     ret |-> [query |-> query, answer |-> <<"Error: ", e>>,
              vector_matches |-> IF ctx.raised THEN <<>>
                                 ELSE ctx.ret.vector_matches,
              graph_facts |-> IF ctx.raised THEN <<>> ELSE ctx.ret.graph_facts]]

\* except Exception as e: log and return the error state
chat_failed(query, e, ctx) ==
    [raised |-> FALSE,
     ret |-> [query |-> query, answer |-> <<"Error: ", e>>,
              vector_matches |-> <<>>, graph_facts |-> <<>>]]

\* chat: [raised, ret, ctx, db, log, writes]; ctx is what retrieve_context
\* did.  prompt_ok, llm_ok: build_prompt and the completion call return
chat(query, top_k, fault, up, index_ok, run_oks, prompt_ok, llm_ok, db) ==
    LET ctx == The({retrieve_context(query, top_k, fault, up, index_ok,
                                     run_oks, db)})
        e == IF ctx.raised THEN "retrieve_context"
             ELSE IF ~prompt_ok THEN "build_prompt"
             ELSE "generate_response"
        llm == IF ~ctx.raised /\ prompt_ok
                 THEN <<Ev("chat.completions.create", query, PyNone, llm_ok)>>
                 ELSE <<>>
        out == IF ctx.raised \/ ~prompt_ok \/ ~llm_ok
                 THEN chat_failed(query, e, ctx)
                 ELSE [raised |-> FALSE,
                       ret |-> [query |-> query,
                                answer |-> generate_response(
                                    build_prompt(query, ctx.ret.vector_matches,
                                                 ctx.ret.graph_facts)),
                                vector_matches |-> ctx.ret.vector_matches,
                                graph_facts |-> ctx.ret.graph_facts]]
    IN  [raised |-> out.raised, ret |-> out.ret,
         ctx |-> [raised |-> ctx.raised, ret |-> ctx.ret],
         db |-> ctx.db, log |-> ctx.log \o llm, writes |-> ctx.writes]

\* at most one graph query of a call fails, of the n it makes
RunOks(n) == {[j \in 1..n |-> j # bad] : bad \in 0..n}

\* the number of candidates of a retrieval
Candidates(query, top_k) == Len(index_query(query, top_k))

\* the embedding call fails, or the index query, or neither
Upstreams ==
    {[up |-> u, index_ok |-> TRUE] : u \in SingleOutcomes}
      \cup {[up |-> u, index_ok |-> FALSE] : u \in {v \in SingleOutcomes : v.ok}}

\* build_prompt raises, or the completion call, or neither
ChatStages ==
    {[prompt_ok |-> TRUE, llm_ok |-> TRUE], [prompt_ok |-> FALSE, llm_ok |-> TRUE],
     [prompt_ok |-> TRUE, llm_ok |-> FALSE]}

\* at most one of the upstream calls of a chat fails
ChatEnvs ==
    {env \in [u : Upstreams, st : ChatStages] :
        (env.u.up.ok /\ env.u.index_ok) \/ (env.st.prompt_ok /\ env.st.llm_ok)}

SearchKey(query, top_k) ==
    generate_key("vector_search", <<ReprObject("VectorDBService")>>,
                 search_kwargs(query, top_k))

\* the first call of retrieve_context has left no history
NoFirst == [fault |-> NoFault, cold |-> FALSE, ret |-> PyNone, log |-> <<>>]

Chat(query, top_k, fault, up, index_ok, run_oks, prompt_ok, llm_ok) ==
    /\ rc.pc = "idle" /\ last.op = "none"
    /\ \E res \in {chat(query, top_k, fault, up, index_ok, run_oks, prompt_ok,
                        llm_ok, store)} :
          /\ store' = res.db
          /\ origin' = Written(origin, res.writes)
          /\ last' = [op |-> "chat", query |-> query, top_k |-> top_k,
                      fault |-> fault, prompt_ok |-> prompt_ok,
                      llm_ok |-> llm_ok, ctx |-> res.ctx,
                      raised |-> res.raised, ret |-> res.ret, log |-> res.log]
    /\ UNCHANGED <<cm_client, rc, proc, redis_up, thr>>

\* a call of retrieve_context
Retrieve(query, top_k, fault, up, index_ok, run_oks) ==
    /\ rc.pc = "idle" /\ last.op = "none"
    /\ \E res \in {retrieve_context(query, top_k, fault, up, index_ok, run_oks,
                                    store)} :
          /\ store' = res.db
          /\ origin' = Written(origin, res.writes)
          /\ last' = [op |-> "retrieve", query |-> query, top_k |-> top_k,
                      fault |-> fault, again |-> FALSE, first |-> NoFirst,
                      cold |-> /\ SearchKey(query, top_k) \notin DOMAIN store
                               /\ SingleKey(query) \notin DOMAIN store,
                      raised |-> res.raised, ret |-> res.ret, log |-> res.log]
    /\ UNCHANGED <<cm_client, rc, proc, redis_up, thr>>

\* the same call issued again by the same process, no entry having expired
\* in between and the cache available as in the first call
RetrieveAgain(fault, up, index_ok, run_oks) ==
    /\ rc.pc = "idle" /\ last.op = "retrieve" /\ ~last.again /\ ~last.raised
    /\ last.fault = NoFault /\ fault = NoFault
    /\ \E res \in {retrieve_context(last.query, last.top_k, fault, up, index_ok,
                                    run_oks, store)} :
          /\ store' = res.db
          /\ origin' = Written(origin, res.writes)
          /\ last' = [last EXCEPT
                        !.fault = fault, !.again = TRUE,
                        !.first = [fault |-> last.fault, cold |-> last.cold,
                                   ret |-> last.ret, log |-> last.log],
                        !.cold = FALSE,
                        !.raised = res.raised, !.ret = res.ret, !.log = res.log]
    /\ UNCHANGED <<cm_client, rc, proc, redis_up, thr>>

NextChat ==
    \/ \E query \in Queries, top_k \in 1..MaxTopK, fault \in CacheFaults,
          env \in ChatEnvs :
          \E run_oks \in RunOks(Candidates(query, top_k)) :
             Chat(query, top_k, fault, env.u.up, env.u.index_ok, run_oks,
                  env.st.prompt_ok, env.st.llm_ok)
    \/ \E query \in Queries, top_k \in 1..MaxTopK, fault \in CacheFaults,
          u \in Upstreams :
          \E run_oks \in RunOks(Candidates(query, top_k)) :
             Retrieve(query, top_k, fault, u.up, u.index_ok, run_oks)
    \/ /\ last.op = "retrieve"
       /\ \E u \in Upstreams :
             \E run_oks \in RunOks(Candidates(last.query, last.top_k)) :
                RetrieveAgain(NoFault, u.up, u.index_ok, run_oks)
    \/ \E k \in DOMAIN store : Expire(k)
    \/ Forget

SpecChat == InitFunc /\ [][NextChat]_vars

-----------------------------------------------------------------------------
(* Claims about chat and about a repeated retrieval (checked under         *)
(* SpecChat)                                                               *)

IndexQueries(log) == Count(log, "index.query", last.query)

QueryEmbeddings(log) == Count(log, "embeddings.create", EMBED_MODEL)

ChatFailed == last.ctx.raised \/ ~last.prompt_ok \/ ~last.llm_ok

\* C24: chat raises nothing; when retrieval, prompt building or response
\* generation fails its result carries the error message and empty
\* vector_matches and graph_facts; when nothing fails it carries the answer
\* and the vector matches and graph facts retrieve_context returned.
C24_ChatNeverRaises ==
    last.op = "chat" =>
        /\ ~last.raised
        /\ last.ret.query = last.query
        /\ ChatFailed =>
              /\ last.ret.answer[1] = "Error: "
              /\ last.ret.vector_matches = <<>>
              /\ last.ret.graph_facts = <<>>
        /\ ~ChatFailed =>
              /\ last.ret.answer[1] = "completion"
              /\ last.ret.vector_matches = last.ctx.ret.vector_matches
              /\ last.ret.graph_facts = last.ctx.ret.graph_facts

\* the completion call failed after a context had been retrieved
C24_Witness ==
    /\ last.op = "chat" /\ ~last.ctx.raised /\ last.prompt_ok /\ ~last.llm_ok
    /\ last.ctx.ret.vector_matches # <<>> /\ last.ctx.ret.graph_facts # <<>>
    /\ last.ret.vector_matches = <<>> /\ last.ret.graph_facts = <<>>

-----------------------------------------------------------------------------
(* Concurrent callers of one wrapped function, all with the same           *)
(* arguments.  The wrapper holds no lock: a caller's construction of its   *)
(* CacheManager and cache read, its call of func and its cache write are   *)
(* three steps, and steps of other callers come in between.                *)

ConcKey == generate_key("embeddings", <<"'x'">>, <<>>)

\* what func returns to caller c, unless it raises
ConcResults(c) == {PyList(<<<<ReprInt(c)>>>>), PyTuple(<<<<ReprInt(c)>>>>)}

ConcOutcomes(c) ==
    {[raised |-> FALSE, val |-> v] : v \in ConcResults(c)}
      \cup {[raised |-> TRUE, val |-> PyNone]}

\* mutant: func is called whatever the cache returned
after_read_always(cached_result) == "compute"

\* if cached_result is not None: return cached_result
after_read(cached_result) ==
    IF cached_result # PyNone THEN "done" ELSE "compute"

\* cache = CacheManager(); cache_key = ...; cached_result = cache.get(cache_key)
WrapperEnter(c, hs, get_err) ==
    /\ thr.calls[c].pc = "start"
    /\ LET init == CacheManager_init(hs)
           cached_result == cache_get(init.client, get_err, store, ConcKey)
       IN  thr' = [thr EXCEPT !.calls[c] =
                IF init.raised THEN [@ EXCEPT !.pc = "raised"]
                ELSE [@ EXCEPT
                        !.pc = after_read(cached_result),
                        !.client = init.client,
                        !.missed = (cached_result = PyNone),
                        !.hit = (cached_result # PyNone),
                        !.src = IF ConcKey \in DOMAIN origin
                                  THEN origin[ConcKey] ELSE NoOrigin,
                        !.ret = cached_result]]
    /\ UNCHANGED <<store, origin, cm_client, last, rc, proc, redis_up>>

\* result = func(*args, **kwargs)
WrapperCompute(c, out) ==
    /\ thr.calls[c].pc = "compute"
    /\ thr' = [thr EXCEPT !.calls[c] =
                 [@ EXCEPT !.pc = IF out.raised THEN "raised" ELSE "write",
                           !.val = out.val,
                           !.computes = @ + 1]]
    /\ UNCHANGED <<store, origin, cm_client, last, rc, proc, redis_up>>

\* cache.set(cache_key, result, ttl); return result
WrapperStore(c, set_err) ==
    /\ thr.calls[c].pc = "write"
    /\ \E w \in {cache_set(thr.calls[c].client, set_err, store, ConcKey,
                           thr.calls[c].val, "3600")} :
          /\ store' = w.db
          /\ origin' = IF w.ok
                         THEN Written(origin, <<[key |-> ConcKey,
                                                 val |-> thr.calls[c].val,
                                                 clean |-> TRUE]>>)
                         ELSE origin
    /\ thr' = [thr EXCEPT !.calls[c] =
                 [@ EXCEPT !.pc = "done", !.ret = thr.calls[c].val]]
    /\ UNCHANGED <<cm_client, last, rc, proc, redis_up>>

\* every caller has its result or its exception: the next round of calls
ConcReturn ==
    /\ \A c \in Callers : thr.calls[c].pc \in {"done", "raised"}
    /\ thr' = [thr EXCEPT !.calls = [c \in Callers |-> CallerStart]]
    /\ UNCHANGED <<store, origin, cm_client, last, rc, proc, redis_up>>

NextConc ==
    \/ \E c \in Callers, hs \in Handshakes, get_err \in BOOLEAN :
          WrapperEnter(c, hs, get_err)
    \/ \E c \in Callers : \E out \in ConcOutcomes(c) : WrapperCompute(c, out)
    \/ \E c \in Callers, set_err \in BOOLEAN : WrapperStore(c, set_err)
    \/ ConcReturn
    \/ \E k \in DOMAIN store : Expire(k)

SpecConc == InitFunc /\ [][NextConc]_vars

\* C27: under any interleaving, a caller invokes func at most once and only
\* after its own cache read returned a miss; a caller that has returned
\* returns the value it computed itself, or the value of the entry it read,
\* which an earlier compute for the same key wrote to the cache.
C27_NoSingleFlight ==
    \A c \in Callers :
        LET t == thr.calls[c]
        IN  /\ t.computes <= 1
            /\ t.computes = 1 => t.missed
            /\ t.pc \in {"compute", "write"} => t.missed
            /\ t.pc = "done" =>
                  \/ t.computes = 1 /\ t.ret = t.val
                  \/ /\ t.computes = 0 /\ t.hit
                     /\ t.ret = json_loads(json_dumps(t.src.val))

\* every caller found the store empty and computed: as many computes as
\* callers, and the entry is the one of the last writer
C27_Witness ==
    /\ \A c \in Callers :
          /\ thr.calls[c].pc = "done"
          /\ thr.calls[c].computes = 1
          /\ thr.calls[c].src = NoOrigin
    /\ ConcKey \in DOMAIN store

-----------------------------------------------------------------------------
(* clear_pattern on the global instance while other clients of the same    *)
(* database write: its KEYS and its DEL are two backend calls, and writes  *)
(* of the others come in between.                                          *)

\* keys = self.client.keys(pattern)
ClearEnumerate(pattern, err) ==
    /\ thr.clear.pc = "idle"
    /\ thr' = [thr EXCEPT !.clear =
         IF ~is_available(cm_client)
           THEN [ClearIdle EXCEPT !.pc = "returned", !.pattern = pattern]
         ELSE IF err
           THEN [ClearIdle EXCEPT !.pc = "returned", !.pattern = pattern,
                                  !.failed = TRUE]
         ELSE LET keys == RedisKeys(store, pattern)
              IN  [ClearIdle EXCEPT
                     !.pc = IF keys # {} THEN "delete" ELSE "returned",
                     !.pattern = pattern, !.listed = TRUE, !.keys = keys]]
    /\ UNCHANGED <<store, origin, cm_client, last, rc, proc, redis_up>>

\* deleted = self.client.delete(*keys); return deleted
ClearDelete(err) ==
    /\ thr.clear.pc = "delete"
    /\ IF err
         THEN /\ thr' = [thr EXCEPT !.clear.pc = "returned",
                                    !.clear.failed = TRUE]
              /\ UNCHANGED <<store, origin>>
         ELSE /\ store' = RedisDel(store, thr.clear.keys)
              /\ origin' = Dropped(origin, store')
              /\ thr' = [thr EXCEPT
                           !.clear.pc = "returned",
                           !.clear.ret =
                               Cardinality(thr.clear.keys \cap DOMAIN store)]
    /\ UNCHANGED <<cm_client, last, rc, proc, redis_up>>

\* the caller has the count
ClearReturn ==
    /\ thr.clear.pc = "returned"
    /\ thr' = [thr EXCEPT !.clear = ClearIdle]
    /\ UNCHANGED <<store, origin, cm_client, last, rc, proc, redis_up>>

\* a set of another client of the database (its instance available)
ConcurrentSet(key, value) ==
    /\ \E w \in {cache_set(TRUE, FALSE, store, key, value, NoTtl)} :
          /\ store' = w.db
          /\ origin' = Written(origin, <<[key |-> key, val |-> value,
                                          clean |-> TRUE]>>)
    /\ thr' = [thr EXCEPT
                 !.clear.mid = IF thr.clear.pc = "delete"
                                 THEN @ \cup {key} ELSE @,
                 !.clear.late = IF thr.clear.pc = "returned"
                                  THEN @ \cup {key} ELSE @]
    /\ UNCHANGED <<cm_client, last, rc, proc, redis_up>>

NextClear ==
    \/ \E pattern \in MgrPatterns, err \in BOOLEAN : ClearEnumerate(pattern, err)
    \/ \E err \in BOOLEAN : ClearDelete(err)
    \/ ClearReturn
    \/ \E key \in MgrKeys : ConcurrentSet(key, PyList(<<<<"v">>>>))
    \/ \E k \in DOMAIN store : Expire(k)

SpecClear == InitFunc /\ [][NextClear]_vars

\* clear_pattern has returned after its KEYS returned
ClearListed == thr.clear.pc = "returned" /\ thr.clear.listed

\* the keys KEYS returned that nobody has written since
NotRewritten == thr.clear.keys \ (thr.clear.mid \cup thr.clear.late)

\* C22 as stated: when clear_pattern has returned, every matching key that
\* was present at enumeration time and has not been rewritten since is
\* absent.
C22_AsStated ==
    ClearListed => \A k \in NotRewritten : k \notin DOMAIN store

\* C22 amended: the same, when the DEL of clear_pattern did not raise.
C22_ClearNotAtomic ==
    (ClearListed /\ ~thr.clear.failed) =>
        \A k \in NotRewritten : k \notin DOMAIN store

\* a matching key written between the KEYS and the DEL is still there after
\* clear_pattern has returned, the enumerated key being gone
C22_Witness ==
    /\ ClearListed /\ ~thr.clear.failed
    /\ NotRewritten # {}
    /\ \E k \in thr.clear.mid \ thr.clear.late :
          /\ GlobMatch(thr.clear.pattern, k)
          /\ k \in DOMAIN store

-----------------------------------------------------------------------------
(* Termination of retrieve_context.  The steps are those of SpecRetrieve;  *)
(* the cache backend answers, or fails the handshake by a timeout.  The    *)
(* loop of fetch_multi_neighborhood and the return are sequential code of  *)
(* one thread and every collaborator call returns or raises, so a step     *)
(* that can be taken is taken: weak fairness on the fetch and the return.  *)

LiveFaults ==
    {NoFault, [hs |-> "TimeoutError", get_err |-> FALSE, set_err |-> FALSE]}

FetchStep == \E fault \in LiveFaults, run_ok \in BOOLEAN : RetrieveFetch(fault, run_ok)

NextLive ==
    \/ \E query \in Queries, top_k \in 1..MaxTopK, fault \in LiveFaults,
          up \in SingleOutcomes, index_ok \in BOOLEAN :
          RetrieveSearch(query, top_k, fault, fault, up, index_ok)
    \/ FetchStep
    \/ RetrieveReturn
    \/ Forget

SpecLive ==
    /\ InitFunc /\ [][NextLive]_vars
    /\ WF_vars(FetchStep) /\ WF_vars(RetrieveReturn)

\* the nodes of the fetches made are the ids of the first matches, in order
InCandidateOrder(segments, matches) ==
    /\ Len(segments) <= Len(matches)
    /\ \A j \in 1..Len(segments) : segments[j].node = matches[j][1]

\* the steps a call has made, while in progress and when it has completed:
\* one search, then one fetch per candidate so far, in candidate order; a
\* call that returns a context has fetched every candidate
StepsInOrder ==
    /\ rc.pc = "graph" =>
          /\ Count(rc.log, "CacheManager", "search") = 1
          /\ Len(rc.segments) = rc.i - 1
          /\ InCandidateOrder(rc.segments, rc.matches)
    /\ Retrieved =>
          /\ Count(last.log, "CacheManager", "search") = 1
          /\ InCandidateOrder(last.segments,
                              index_query(last.query, last.top_k))
          /\ last.stage = "search" => last.segments = <<>>
          /\ ~last.raised =>
                Len(last.segments) = Len(last.ret.vector_matches)

\* C31: a retrieve_context call in progress eventually completes, with a
\* context or with an error, and the steps it has made are one vector
\* search followed by one graph fetch per candidate, one after the other in
\* candidate order (every candidate when it returns a context, those before
\* the failing step when it raises).
C31_RetrieveTerminates ==
    /\ [](StepsInOrder)
    /\ (rc.pc = "graph") ~> (rc.pc = "idle" /\ Retrieved)

\* a call over three candidates has returned its context
C31_Witness ==
    /\ Retrieved /\ ~last.raised /\ rc.pc = "idle"
    /\ Len(last.segments) = 3
    /\ last.segments[2].node = "n1"

=============================================================================
